---- MODULE Spec2Model ----
(***************************************************************************)
(* fastrouter: RouterBuilder, the route trie built by Build/addRoute, and  *)
(* the matchers Match, MatchOptimized, MatchOptimized2/FastMatch and       *)
(* FixedRouter.FastMatch (router.go, router_fixes.go).                     *)
(*                                                                         *)
(* A Go string is a sequence of one-character strings; a trie is a table   *)
(* of nodes (a sequence of records) in which a *node is an index, node 1   *)
(* is the root and index 0 is the nil pointer.  A Go map is a function     *)
(* whose DOMAIN is the set of keys present.                                *)
(***************************************************************************)
EXTENDS Integers, Sequences, FiniteSets, TLC

VARIABLES routes, built, router, fixed, ret, heap, pool, held, procs

vars == <<routes, built, router, fixed, ret, heap, pool, held, procs>>

(***************************************************************************)
(* Bounds                                                                  *)
(***************************************************************************)
\* routes one builder accepts
MaxRoutes == 2
\* PathParams instances the pool's New function allocates
MaxMaps == 2
\* goroutines that call the matchers concurrently
NumProcs == 2

(***************************************************************************)
(* Strings                                                                 *)
(***************************************************************************)
\* byte value of a character (Go compares strings byte-wise)
Ord(c) ==
  CASE c = "*" -> 42
    [] c = "/" -> 47
    [] c = ":" -> 58
    [] c = "a" -> 97
    [] c = "b" -> 98
    [] c = "c" -> 99
    [] c = "x" -> 120
    [] c = "y" -> 121

\* s < t on Go strings
RECURSIVE StrLess(_, _)
StrLess(s, t) ==
  IF Len(t) = 0 THEN FALSE
  ELSE IF Len(s) = 0 THEN TRUE
  ELSE IF Ord(Head(s)) # Ord(Head(t)) THEN Ord(Head(s)) < Ord(Head(t))
  ELSE StrLess(Tail(s), Tail(t))

\* strings.ToUpper on the method names in use
ToUpper(m) ==
  CASE m = "get" -> "GET"
    [] m = "post" -> "POST"
    [] OTHER -> m

\* strings.HasPrefix(s, ":")
HasPrefixColon(s) == Len(s) > 0 /\ s[1] = ":"

\* strings.Split(s, "/"): the pieces between the separators, empty ones kept
RECURSIVE Split(_)
Split(s) ==
  IF Len(s) = 0 THEN << <<>> >>
  ELSE LET rest == Split(Tail(s))
       IN  IF Head(s) = "/" THEN << <<>> >> \o rest
           ELSE << <<Head(s)>> \o Head(rest) >> \o Tail(rest)

\* strings.Join(segs, "/")
RECURSIVE Join(_)
Join(segs) ==
  IF Len(segs) = 0 THEN <<>>
  ELSE IF Len(segs) = 1 THEN segs[1]
  ELSE segs[1] \o <<"/">> \o Join(Tail(segs))

\* Normalize that prepends "/" to the empty path only
Normalize_emptyOnly(path) ==
  IF Len(path) = 0 THEN <<"/">> ELSE path

\* if path == "" || path[0] != '/' { path = "/" + path }
Normalize(path) ==
  IF Len(path) = 0 \/ path[1] # "/" THEN <<"/">> \o path ELSE path

\* strings.Split(path, "/")[1:], with the single empty segment of "/" dropped
Segments(path) ==
  LET segments == Tail(Split(Normalize(path)))
  IN  IF Len(segments) = 1 /\ segments[1] = <<>> THEN <<>> ELSE segments

(***************************************************************************)
(* The trie                                                                *)
(***************************************************************************)
\* a nil http.Handler, and a nil *node
NoHandler == 0
NilNode == 0

\* an empty Go map
EmptyMap == [k \in {} |-> 0]

\* m[k] = v on a Go map
MapSet(m, k, v) == [j \in DOMAIN m \cup {k} |-> IF j = k THEN v ELSE m[j]]

\* delete(m, k)
MapDelete(m, k) == [j \in DOMAIN m \ {k} |-> m[j]]

\* &node{segment: ..., methods: make(...), children: make(...), ...}
NewNode(segment, paramName, isParam, isWild) ==
  [segment |-> segment, methods |-> EmptyMap, children |-> EmptyMap,
   paramName |-> paramName, isParam |-> isParam, isWild |-> isWild,
   wildChild |-> NilNode]

\* the root node Build creates
NewRouter == << NewNode(<<>>, <<>>, FALSE, FALSE) >>

\* SetHandler that keeps the handler a method already has at the node
SetHandler_keepFirst(T, n, method, handler) ==
  IF method \in DOMAIN T[n].methods THEN T
  ELSE [T EXCEPT ![n].methods = MapSet(@, method, handler)]

\* current.methods[route.Method] = route.Handler
SetHandler(T, n, method, handler) ==
  [T EXCEPT ![n].methods = MapSet(@, method, handler)]

\* the loop body of addRoute for one segment: the table and the node reached
AddSegment(T, current, segment) ==
  IF HasPrefixColon(segment)
  THEN LET paramName == Tail(segment)
           found == {k \in DOMAIN T[current].children :
                       /\ T[T[current].children[k]].isParam
                       /\ T[T[current].children[k]].paramName = paramName}
       IN  IF found # {}
           THEN [T |-> T, n |-> T[current].children[CHOOSE k \in found : TRUE]]
           ELSE [T |-> [Append(T, NewNode(segment, paramName, TRUE, FALSE))
                          EXCEPT ![current].children = MapSet(@, segment, Len(T) + 1)],
                 n |-> Len(T) + 1]
  ELSE IF segment = <<"*">>
  THEN IF T[current].wildChild = NilNode
       THEN [T |-> [Append(T, NewNode(<<"*">>, <<>>, FALSE, TRUE))
                      EXCEPT ![current].wildChild = Len(T) + 1],
             n |-> Len(T) + 1]
       ELSE [T |-> T, n |-> T[current].wildChild]
  ELSE IF segment \in DOMAIN T[current].children
       THEN [T |-> T, n |-> T[current].children[segment]]
       ELSE [T |-> [Append(T, NewNode(segment, <<>>, FALSE, FALSE))
                      EXCEPT ![current].children = MapSet(@, segment, Len(T) + 1)],
             n |-> Len(T) + 1]

\* AddSegments that stores the handler at every node on the way
RECURSIVE AddSegments_everyNode(_, _, _, _, _)
AddSegments_everyNode(T, current, segments, i, route) ==
  IF i > Len(segments) THEN T
  ELSE LET step == AddSegment(T, current, segments[i])
       IN  AddSegments_everyNode(SetHandler(step.T, step.n, route.Method, route.Handler),
                                 step.n, segments, i + 1, route)

\* the loop of addRoute over segments[i..]
RECURSIVE AddSegments(_, _, _, _, _)
AddSegments(T, current, segments, i, route) ==
  IF i > Len(segments) THEN T
  ELSE LET step == AddSegment(T, current, segments[i])
           T2 == IF i = Len(segments)
                 THEN SetHandler(step.T, step.n, route.Method, route.Handler)
                 ELSE step.T
       IN  AddSegments(T2, step.n, segments, i + 1, route)

\* addRoute without the special case of the root path: "/" is inserted as
\* the single empty segment that strings.Split yields
addRoute_rootAsChild(T, route) ==
  LET segments == Segments(route.Path)
  IN  AddSegments(T, 1, IF Len(segments) = 0 THEN << <<>> >> ELSE segments, 1, route)

\* Router.addRoute
addRoute(T, route) ==
  LET segments == Segments(route.Path)
  IN  IF Len(segments) = 0
      THEN SetHandler(T, 1, route.Method, route.Handler)
      ELSE AddSegments(T, 1, segments, 1, route)

\* sort.Slice(rb.routes, less by Path): for the slice lengths reached here
\* (at most 12) the library runs an insertion sort, which keeps the order of
\* routes with equal paths
RECURSIVE InsertSorted(_, _)
InsertSorted(sorted, route) ==
  IF Len(sorted) = 0 THEN <<route>>
  ELSE LET last == sorted[Len(sorted)]
       IN  IF StrLess(route.Path, last.Path)
           THEN InsertSorted(SubSeq(sorted, 1, Len(sorted) - 1), route) \o <<last>>
           ELSE Append(sorted, route)

RECURSIVE SortRoutes(_)
SortRoutes(rs) ==
  IF Len(rs) = 0 THEN <<>>
  ELSE InsertSorted(SortRoutes(SubSeq(rs, 1, Len(rs) - 1)), rs[Len(rs)])

\* for _, route := range rb.routes { router.addRoute(route) }
RECURSIVE AddRoutes(_, _)
AddRoutes(T, rs) ==
  IF Len(rs) = 0 THEN T ELSE AddRoutes(addRoute(T, Head(rs)), Tail(rs))

(***************************************************************************)
(* The matchers                                                            *)
(*                                                                         *)
(* The descent never reads the params map, it only writes it, so a descent *)
(* is modelled by the handler it returns and the log of its writes to      *)
(* params, in program order.  `for _, child := range n.children` visits    *)
(* the map in an unspecified order: a descent is one of a set of outcomes, *)
(* one for each order in which the parameter children can be visited.      *)
(***************************************************************************)
\* params[k] = v and delete(params, k) as log entries
SetEv(k, v) == [op |-> "set", k |-> k, v |-> v]
DelEv(k) == [op |-> "del", k |-> k, v |-> <<>>]

\* the params map after the writes of a log
RECURSIVE ApplyEvents(_, _)
ApplyEvents(ev, m) ==
  IF Len(ev) = 0 THEN m
  ELSE ApplyEvents(Tail(ev),
                   IF Head(ev).op = "set" THEN MapSet(m, Head(ev).k, Head(ev).v)
                   ELSE MapDelete(m, Head(ev).k))

\* the orders in which a range loop can visit the keys S
RECURSIVE Perms(_)
Perms(S) ==
  IF S = {} THEN { <<>> }
  ELSE UNION { { <<k>> \o rest : rest \in Perms(S \ {k}) } : k \in S }

\* the keys of the children the parameter loop enters (child.isParam)
ParamKeys(T, n) == {k \in DOMAIN T[n].children : T[T[n].children[k]].isParam}

\* HandlerAt with the query method upper-cased before the lookup
HandlerAt_upper(T, n, method) ==
  IF ToUpper(method) \in DOMAIN T[n].methods THEN T[n].methods[ToUpper(method)]
  ELSE NoHandler

\* if handler, exists := n.methods[method]; exists { return handler }; return nil
HandlerAt(T, n, method) ==
  IF method \in DOMAIN T[n].methods THEN T[n].methods[method] ELSE NoHandler

\* ExactChild with the wildcard child taking precedence over a literal child
ExactChild_wildFirst(T, n, segment) ==
  IF T[n].wildChild # NilNode THEN NilNode
  ELSE IF segment \in DOMAIN T[n].children THEN T[n].children[segment] ELSE NilNode

\* ExactChild that finds the wildcard child under the key "*"
ExactChild_wildKeyed(T, n, segment) ==
  IF segment \in DOMAIN T[n].children THEN T[n].children[segment]
  ELSE IF segment = <<"*">> THEN T[n].wildChild
  ELSE NilNode

\* child, exists := n.children[segment]: the child, or nil when none exists
ExactChild(T, n, segment) ==
  IF segment \in DOMAIN T[n].children THEN T[n].children[segment] ELSE NilNode

\* WildMatch that binds "*" to what follows the segment the wildcard stands on
WildMatch_afterFirst(T, n, segments, method, ev) ==
  IF T[n].wildChild # NilNode
  THEN [h |-> HandlerAt(T, T[n].wildChild, method),
        ev |-> Append(ev, SetEv(<<"*">>, Join(Tail(segments))))]
  ELSE [h |-> NoHandler, ev |-> ev]

\* the wildcard branch of matchNode, entered with the write log ev
WildMatch(T, n, segments, method, ev) ==
  IF T[n].wildChild # NilNode
  THEN [h |-> HandlerAt(T, T[n].wildChild, method),
        ev |-> Append(ev, SetEv(<<"*">>, Join(segments)))]
  ELSE [h |-> NoHandler, ev |-> ev]

RECURSIVE matchNode(_, _, _, _)
RECURSIVE ParamLoop(_, _, _, _, _, _)

\* matchNode that gives up when the literal child's subtree has no handler
matchNode_noBacktrack(T, n, segments, method) ==
  IF Len(segments) = 0
  THEN { [h |-> HandlerAt(T, n, method), ev |-> <<>>] }
  ELSE IF ExactChild(T, n, Head(segments)) # NilNode
  THEN matchNode(T, ExactChild(T, n, Head(segments)), Tail(segments), method)
  ELSE UNION { ParamLoop(T, n, order, segments, method, <<>>)
               : order \in Perms(ParamKeys(T, n)) }

\* the parameter loop of matchNode over the children keyed order, then the
\* wildcard branch
ParamLoop(T, n, order, segments, method, ev) ==
  IF Len(order) = 0 THEN { WildMatch(T, n, segments, method, ev) }
  ELSE LET child == T[n].children[Head(order)]
           bind == Append(ev, SetEv(T[child].paramName, Head(segments)))
       IN  UNION { IF o.h # NoHandler
                   THEN { [h |-> o.h, ev |-> bind \o o.ev] }
                   ELSE ParamLoop(T, n, Tail(order), segments, method,
                                  Append(bind \o o.ev, DelEv(T[child].paramName)))
                   : o \in matchNode(T, child, Tail(segments), method) }

\* Router.matchNode
matchNode(T, n, segments, method) ==
  IF Len(segments) = 0
  THEN { [h |-> HandlerAt(T, n, method), ev |-> <<>>] }
  ELSE LET segment == Head(segments)
           child == ExactChild(T, n, segment)
           exact == IF child # NilNode
                    THEN matchNode(T, child, Tail(segments), method)
                    ELSE { [h |-> NoHandler, ev |-> <<>>] }
       IN  UNION { IF o.h # NoHandler THEN {o}
                   ELSE UNION { ParamLoop(T, n, order, segments, method, o.ev)
                                : order \in Perms(ParamKeys(T, n)) }
                   : o \in exact }

\* a matcher's return value (handler, params) for an outcome of the descent
\* that started with the map contents m
Result(o, m) == [handler |-> o.h, params |-> ApplyEvents(o.ev, m)]

\* Router.Match: the results the call can return
MatchReturns(T, method, path) ==
  { Result(o, EmptyMap) : o \in matchNode(T, 1, Segments(path), method) }

\* for end < len(path) && path[end] != '/' { end++ }   (offsets count from 0)
RECURSIVE SegmentEnd(_, _)
SegmentEnd(path, end) ==
  IF end < Len(path) /\ path[end + 1] # "/" THEN SegmentEnd(path, end + 1) ELSE end

\* path[start:end]
Slice(path, start, end) == SubSeq(path, start + 1, end)

\* nextStart := end + 1; if nextStart > len(path) { nextStart = len(path) }
NextStart(path, end) == IF end + 1 > Len(path) THEN Len(path) ELSE end + 1

\* the wildcard branch of matchPathOptimized
WildMatchOptimized(T, n, path, start, method, ev) ==
  IF T[n].wildChild # NilNode
  THEN [h |-> HandlerAt(T, T[n].wildChild, method),
        ev |-> IF start < Len(path)
               THEN Append(ev, SetEv(<<"*">>, Slice(path, start, Len(path))))
               ELSE ev]
  ELSE [h |-> NoHandler, ev |-> ev]

RECURSIVE matchPathOptimized(_, _, _, _, _)
RECURSIVE ParamLoopOptimized(_, _, _, _, _, _, _)

\* the parameter loop of matchPathOptimized, then the wildcard branch
ParamLoopOptimized(T, n, order, path, start, method, ev) ==
  IF Len(order) = 0 THEN { WildMatchOptimized(T, n, path, start, method, ev) }
  ELSE LET end == SegmentEnd(path, start)
           child == T[n].children[Head(order)]
           bind == Append(ev, SetEv(T[child].paramName, Slice(path, start, end)))
       IN  UNION { IF o.h # NoHandler
                   THEN { [h |-> o.h, ev |-> bind \o o.ev] }
                   ELSE ParamLoopOptimized(T, n, Tail(order), path, start, method,
                                           Append(bind \o o.ev, DelEv(T[child].paramName)))
                   : o \in matchPathOptimized(T, child, path, NextStart(path, end), method) }

\* Router.matchPathOptimized
matchPathOptimized(T, n, path, start, method) ==
  IF start >= Len(path)
  THEN { [h |-> HandlerAt(T, n, method), ev |-> <<>>] }
  ELSE LET end == SegmentEnd(path, start)
           segment == Slice(path, start, end)
           child == ExactChild(T, n, segment)
           exact == IF child # NilNode
                    THEN matchPathOptimized(T, child, path, NextStart(path, end), method)
                    ELSE { [h |-> NoHandler, ev |-> <<>>] }
       IN  UNION { IF o.h # NoHandler THEN {o}
                   ELSE UNION { ParamLoopOptimized(T, n, order, path, start, method, o.ev)
                                : order \in Perms(ParamKeys(T, n)) }
                   : o \in exact }

\* Router.MatchOptimized: the results the call can return
MatchOptimizedReturns(T, method, path) ==
  { Result(o, EmptyMap) : o \in matchPathOptimized(T, 1, Normalize(path), 1, method) }

\* matchPathOptimizedStatic that looks at the node it starts on only
matchPathOptimizedStatic_noDescent(T, n, path, start, method) ==
  IF start >= Len(path) THEN HandlerAt(T, n, method) ELSE NoHandler

\* Router.matchPathOptimizedStatic
RECURSIVE matchPathOptimizedStatic(_, _, _, _, _)
matchPathOptimizedStatic(T, n, path, start, method) ==
  IF start >= Len(path) THEN HandlerAt(T, n, method)
  ELSE LET end == SegmentEnd(path, start)
           segment == Slice(path, start, end)
           child == ExactChild(T, n, segment)
       IN  IF child # NilNode /\ ~T[child].isParam
           THEN matchPathOptimizedStatic(T, child, path, NextStart(path, end), method)
           ELSE NoHandler

\* the scan of MatchOptimized2 for ':' or '*' after the first byte
HasParams(path) == \E i \in 2..Len(path) : path[i] \in {":", "*"}

\* checkForParams that looks at the node it is called on only
checkForParams_nodeOnly(T, n) == T[n].isParam \/ T[n].isWild

\* checkForParams
RECURSIVE checkForParams(_, _)
checkForParams(T, n) ==
  \/ T[n].isParam \/ T[n].isWild
  \/ \E k \in DOMAIN T[n].children : checkForParams(T, T[n].children[k])
  \/ (T[n].wildChild # NilNode /\ checkForParams(T, T[n].wildChild))

\* the countNodes closure of Stats: nodes, routes and depths of the subtree
RECURSIVE countNodes(_, _, _)
countNodes(T, n, depth) ==
  LET kids == {T[n].children[k] : k \in DOMAIN T[n].children}
              \cup (IF T[n].wildChild # NilNode THEN {T[n].wildChild} ELSE {})
      sub == [c \in kids |-> countNodes(T, c, depth + 1)]
      RECURSIVE Sum(_, _)
      Sum(S, f) == IF S = {} THEN 0
                   ELSE LET c == CHOOSE c \in S : TRUE
                        IN  sub[c][f] + Sum(S \ {c}, f)
      RECURSIVE Max(_)
      Max(S) == IF S = {} THEN depth
                ELSE LET c == CHOOSE c \in S : TRUE
                         m == Max(S \ {c})
                     IN  IF sub[c].max_depth > m THEN sub[c].max_depth ELSE m
  IN  [nodes |-> 1 + Sum(kids, "nodes"),
       routes |-> Cardinality(DOMAIN T[n].methods) + Sum(kids, "routes"),
       max_depth |-> Max(kids)]

\* StatsReturns that counts the root as depth 1
StatsReturns_rootDepthOne(T) == countNodes(T, 1, 1)

\* Router.Stats: the map the call returns
StatsReturns(T) == countNodes(T, 1, 0)

(***************************************************************************)
(* Inputs                                                                  *)
(***************************************************************************)
\* paths given to AddRoute:  /  /:x/b  /a  /a/*  /a/:x  /a/:y  /a/b  a
RoutePaths ==
  { <<"/">>,
    <<"/", ":", "x", "/", "b">>,
    <<"/", "a">>,
    <<"/", "a", "/", "*">>,
    <<"/", "a", "/", ":", "x">>,
    <<"/", "a", "/", ":", "y">>,
    <<"/", "a", "/", "b">>,
    <<"a">> }

\* methods given to AddRoute
RouteMethods == {"GET", "post"}

\* paths given to the matchers:
\*   ""  /  /a  /a/  /a/b  /a/c  /a/b/c  /a/:x  /a/*  a
ReqPaths ==
  { <<>>,
    <<"/">>,
    <<"/", "a">>,
    <<"/", "a", "/">>,
    <<"/", "a", "/", "b">>,
    <<"/", "a", "/", "c">>,
    <<"/", "a", "/", "b", "/", "c">>,
    <<"/", "a", "/", ":", "x">>,
    <<"/", "a", "/", "*">>,
    <<"a">> }

\* methods given to the matchers
ReqMethods == {"GET", "POST", "post"}

\* the same for the calls that use paramsPool:  /a  /a/*  /a/:x
PoolRoutePaths ==
  { <<"/", "a">>,
    <<"/", "a", "/", "*">>,
    <<"/", "a", "/", ":", "x">> }

PoolRouteMethods == {"GET"}

\*   /a  /a/b  /a/:x  /a/*
PoolReqPaths ==
  { <<"/", "a">>,
    <<"/", "a", "/", "b">>,
    <<"/", "a", "/", ":", "x">>,
    <<"/", "a", "/", "*">> }

PoolReqMethods == {"GET", "POST"}

(***************************************************************************)
(* State                                                                   *)
(*   routes, built  RouterBuilder.routes, RouterBuilder.built              *)
(*   router         the node table of the Router that Build returned;      *)
(*                  <<>> while no Router exists                            *)
(*   fixed          the FixedRouter made from router, if any               *)
(*   heap           the contents of the PathParams instances of paramsPool *)
(*   pool           the instances idle in paramsPool                       *)
(*   held           the instances a matcher handed to a caller             *)
(*   ret            the last completed call and what it returned           *)
(*   procs          the calls in flight of concurrent callers              *)
(***************************************************************************)
NoErr == "nil"
ErrBuilt == "cannot add routes to a built router"
ErrOrder == "routes must be added in lexicographic order"
ErrAlreadyBuilt == "router already built"

\* a nil PathParams
NilParams == 0

MapIds == 1..MaxMaps

Procs == 1..NumProcs

NoStats == [nodes |-> 0, routes |-> 0, max_depth |-> 0]

Returned(op, method, path, err, handler, params, pid, stats) ==
  [op |-> op, method |-> method, path |-> path, err |-> err,
   handler |-> handler, params |-> params, pid |-> pid, stats |-> stats]

\* what a call without a result of its own returns besides its error
Done(op, method, path, err) ==
  Returned(op, method, path, err, NoHandler, EmptyMap, NilParams, NoStats)

Idle == [pc |-> "idle", op |-> "", method |-> "", path |-> <<>>,
         handler |-> NoHandler, pid |-> NilParams, todo |-> <<>>]

\* NewRouterBuilder, an empty paramsPool, no call made yet
Init ==
  /\ routes = <<>>
  /\ built = FALSE
  /\ router = <<>>
  /\ fixed = [made |-> FALSE, hasParams |-> FALSE]
  /\ heap = [i \in MapIds |-> EmptyMap]
  /\ pool = {}
  /\ held = {}
  /\ ret = Done("", "", <<>>, NoErr)
  /\ procs = [p \in Procs |-> Idle]

(***************************************************************************)
(* RouterBuilder                                                           *)
(***************************************************************************)
\* AddRouteErr with the ordering check made before the built check
AddRouteErr_orderFirst(path) ==
  IF Len(routes) > 0 /\ StrLess(path, routes[Len(routes)].Path) THEN ErrOrder
  ELSE IF built THEN ErrBuilt
  ELSE NoErr

\* AddRouteErr with a path equal to the last one rejected as well
AddRouteErr_rejectEqual(path) ==
  IF built THEN ErrBuilt
  ELSE IF Len(routes) > 0 /\ ~StrLess(routes[Len(routes)].Path, path) THEN ErrOrder
  ELSE NoErr

\* AddRouteErr without the ordering check
AddRouteErr_noOrder(path) ==
  IF built THEN ErrBuilt ELSE NoErr

\* the checks of AddRoute: the error it returns, NoErr when it accepts
AddRouteErr(path) ==
  IF built THEN ErrBuilt
  ELSE IF Len(routes) > 0 /\ StrLess(path, routes[Len(routes)].Path) THEN ErrOrder
  ELSE NoErr

\* AddRoute that inserts into the trie of a Router that was already built
AddRoute_live(method, path, handler) ==
  LET err == AddRouteErr(path)
      route == [Method |-> ToUpper(method), Path |-> path, Handler |-> handler]
  IN  /\ ret' = Done("AddRoute", method, path, err)
      /\ IF err = NoErr
         THEN /\ Len(routes) < MaxRoutes
              /\ routes' = Append(routes, route)
              /\ router' = router
         ELSE /\ routes' = routes
              /\ router' = IF err = ErrBuilt THEN addRoute(router, route) ELSE router
      /\ UNCHANGED <<built, fixed, heap, pool, held, procs>>

\* RouterBuilder.AddRoute
AddRoute(method, path, handler) ==
  LET err == AddRouteErr(path)
  IN  /\ ret' = Done("AddRoute", method, path, err)
      /\ IF err = NoErr
         THEN /\ Len(routes) < MaxRoutes
              /\ routes' = Append(routes, [Method |-> ToUpper(method), Path |-> path,
                                           Handler |-> handler])
         ELSE routes' = routes
      /\ UNCHANGED <<built, router, fixed, heap, pool, held, procs>>

\* RouterBuilder.Build: the Router returned is kept in router; a failing
\* Build returns a nil Router and leaves the one returned before alone
Build ==
  IF built
  THEN /\ ret' = Done("Build", "", <<>>, ErrAlreadyBuilt)
       /\ UNCHANGED <<routes, built, router, fixed, heap, pool, held, procs>>
  ELSE /\ built' = TRUE
       /\ routes' = SortRoutes(routes)
       /\ router' = AddRoutes(NewRouter, routes')
       /\ ret' = Done("Build", "", <<>>, NoErr)
       /\ UNCHANGED <<fixed, heap, pool, held, procs>>

(***************************************************************************)
(* Router: calls that do not use paramsPool                                *)
(***************************************************************************)
\* a Router exists once Build has returned one
HasRouter == Len(router) > 0

\* Router.Match
Match(method, path) ==
  /\ HasRouter
  /\ \E r \in MatchReturns(router, method, path) :
       ret' = Returned("Match", method, path, NoErr, r.handler, r.params, NilParams, NoStats)
  /\ UNCHANGED <<routes, built, router, fixed, heap, pool, held, procs>>

\* Router.MatchOptimized
MatchOptimized(method, path) ==
  /\ HasRouter
  /\ \E r \in MatchOptimizedReturns(router, method, path) :
       ret' = Returned("MatchOptimized", method, path, NoErr, r.handler, r.params, NilParams, NoStats)
  /\ UNCHANGED <<routes, built, router, fixed, heap, pool, held, procs>>

\* Router.Stats
Stats ==
  /\ HasRouter
  /\ ret' = Returned("Stats", "", <<>>, NoErr, NoHandler, EmptyMap, NilParams, StatsReturns(router))
  /\ UNCHANGED <<routes, built, router, fixed, heap, pool, held, procs>>

\* Router.RouteCount
RouteCount ==
  /\ HasRouter
  /\ ret' = Returned("RouteCount", "", <<>>, NoErr, NoHandler, EmptyMap, NilParams,
                     [NoStats EXCEPT !.routes = StatsReturns(router).routes])
  /\ UNCHANGED <<routes, built, router, fixed, heap, pool, held, procs>>

\* Router.NodeCount
NodeCount ==
  /\ HasRouter
  /\ ret' = Returned("NodeCount", "", <<>>, NoErr, NoHandler, EmptyMap, NilParams,
                     [NoStats EXCEPT !.nodes = StatsReturns(router).nodes])
  /\ UNCHANGED <<routes, built, router, fixed, heap, pool, held, procs>>

\* NewFixedRouter
NewFixedRouter ==
  /\ HasRouter
  /\ fixed' = [made |-> TRUE, hasParams |-> checkForParams(router, 1)]
  /\ ret' = Done("NewFixedRouter", "", <<>>, NoErr)
  /\ UNCHANGED <<routes, built, router, heap, pool, held, procs>>

(***************************************************************************)
(* paramsPool and the calls that use it                                    *)
(***************************************************************************)
\* the instances some call in flight works on
InFlight == {procs[p].pid : p \in DOMAIN procs} \ {NilParams}

\* instances that are neither pooled nor referenced: New allocates from these
FreeIds == MapIds \ (pool \cup held \cup InFlight)

\* GetChoices of a pool that also hands out instances that are in use
GetChoices_inUse ==
  pool \cup held \cup InFlight
       \cup (IF FreeIds = {} THEN {} ELSE {CHOOSE i \in FreeIds : \A j \in FreeIds : i <= j})

\* paramsPool.Get(): an instance taken out of the pool, or, as Get may treat
\* the pool as empty, a fresh empty one made by New
GetChoices ==
  pool \cup (IF FreeIds = {} THEN {} ELSE {CHOOSE i \in FreeIds : \A j \in FreeIds : i <= j})

\* for k := range params { delete(params, k) }
RECURSIVE Clear(_)
Clear(m) ==
  IF DOMAIN m = {} THEN m
  ELSE Clear(MapDelete(m, CHOOSE k \in DOMAIN m : TRUE))

\* PooledMatch that does not put the map back when the match fails
PooledMatch_noPut(op, method, path, usePool) ==
  LET p == Normalize(path)
  IN  IF usePool
      THEN \E id \in GetChoices :
           \E o \in matchPathOptimized(router, 1, p, 1, method) :
             LET params == ApplyEvents(o.ev, Clear(heap[id]))
             IN  /\ heap' = [heap EXCEPT ![id] = params]
                 /\ pool' = pool \ {id}
                 /\ IF o.h = NoHandler
                    THEN /\ held' = held
                         /\ ret' = Done(op, method, path, NoErr)
                    ELSE /\ held' = held \cup {id}
                         /\ ret' = Returned(op, method, path, NoErr, o.h, params, id, NoStats)
      ELSE /\ ret' = Returned(op, method, path, NoErr,
                              matchPathOptimizedStatic(router, 1, p, 1, method),
                              EmptyMap, NilParams, NoStats)
           /\ UNCHANGED <<heap, pool, held>>

\* the body shared by MatchOptimized2 and FixedRouter.FastMatch: usePool is
\* the test each of them makes (hasParams, fr.hasParams)
PooledMatch(op, method, path, usePool) ==
  LET p == Normalize(path)
  IN  IF usePool
      THEN \E id \in GetChoices :
           \E o \in matchPathOptimized(router, 1, p, 1, method) :
             LET params == ApplyEvents(o.ev, Clear(heap[id]))
             IN  /\ heap' = [heap EXCEPT ![id] = params]
                 /\ IF o.h = NoHandler
                    THEN /\ pool' = pool \cup {id}
                         /\ held' = held
                         /\ ret' = Done(op, method, path, NoErr)
                    ELSE /\ pool' = pool \ {id}
                         /\ held' = held \cup {id}
                         /\ ret' = Returned(op, method, path, NoErr, o.h, params, id, NoStats)
      ELSE /\ ret' = Returned(op, method, path, NoErr,
                              matchPathOptimizedStatic(router, 1, p, 1, method),
                              EmptyMap, NilParams, NoStats)
           /\ UNCHANGED <<heap, pool, held>>

\* Router.MatchOptimized2
MatchOptimized2(method, path) ==
  /\ HasRouter
  /\ PooledMatch("MatchOptimized2", method, path, HasParams(Normalize(path)))
  /\ UNCHANGED <<routes, built, router, fixed, procs>>

\* Router.FastMatch
FastMatch(method, path) == MatchOptimized2(method, path)

\* FixedRouter.FastMatch
FixedFastMatch(method, path) ==
  /\ fixed.made
  /\ PooledMatch("FixedRouter.FastMatch", method, path, fixed.hasParams)
  /\ UNCHANGED <<routes, built, router, fixed, procs>>

\* ReleaseParams(params), called with nil or with an instance a matcher
\* handed out; the caller gives up its reference
ReleaseParams(pid) ==
  /\ IF pid # NilParams /\ DOMAIN heap[pid] # {}
     THEN /\ heap' = [heap EXCEPT ![pid] = Clear(@)]
          /\ pool' = pool \cup {pid}
     ELSE UNCHANGED <<heap, pool>>
  /\ held' = held \ {pid}
  /\ ret' = Returned("ReleaseParams", "", <<>>, NoErr, NoHandler, EmptyMap, pid, NoStats)
  /\ UNCHANGED <<routes, built, router, fixed, procs>>

\* the k-th accepted route carries handler k: every route has its own handler
NextHandler == Len(routes) + 1

BuilderStep ==
  \/ \E method \in RouteMethods, path \in RoutePaths : AddRoute(method, path, NextHandler)
  \/ Build

RouterStep ==
  \/ \E method \in ReqMethods, path \in ReqPaths : Match(method, path)
  \/ \E method \in ReqMethods, path \in ReqPaths : MatchOptimized(method, path)
  \/ Stats
  \/ RouteCount
  \/ NodeCount

Next == BuilderStep \/ RouterStep

Spec == Init /\ [][Next]_vars


(***************************************************************************)
(* The same builder and router, with the calls that use paramsPool         *)
(***************************************************************************)
PoolBuilderStep ==
  \/ \E method \in PoolRouteMethods, path \in PoolRoutePaths : AddRoute(method, path, NextHandler)
  \/ Build

PoolRouterStep ==
  \/ \E method \in PoolReqMethods, path \in PoolReqPaths : Match(method, path)
  \/ \E method \in PoolReqMethods, path \in PoolReqPaths : MatchOptimized(method, path)
  \/ Stats
  \/ RouteCount
  \/ NodeCount
  \/ NewFixedRouter

PooledStep ==
  \/ \E method \in PoolReqMethods, path \in PoolReqPaths : FastMatch(method, path)
  \/ \E method \in PoolReqMethods, path \in PoolReqPaths : FixedFastMatch(method, path)
  \/ \E pid \in held \cup {NilParams} : ReleaseParams(pid)

NextPool == PoolBuilderStep \/ PoolRouterStep \/ PooledStep

SpecPool == Init /\ [][NextPool]_vars

(***************************************************************************)
(* Concurrent callers.  A call is split at its accesses to shared memory:  *)
(* taking an instance from paramsPool, clearing it, each write of the      *)
(* descent to its params map, and the return (with the Put of a failed     *)
(* pooled match).  The trie is only read.  The order in which a descent    *)
(* visits parameter children is fixed when the descent starts.             *)
(***************************************************************************)
\* the Router the goroutines share: GET /a/* and GET /a/:x, built and
\* wrapped by NewFixedRouter before the goroutines start
ConcRoutes ==
  << [Method |-> "GET", Path |-> <<"/", "a", "/", "*">>, Handler |-> 1],
     [Method |-> "GET", Path |-> <<"/", "a", "/", ":", "x">>, Handler |-> 2] >>

\* the calls the goroutines make
ConcCalls ==
  { [op |-> "Match", method |-> "GET", path |-> <<"/", "a", "/", "b">>],
    [op |-> "MatchOptimized2", method |-> "GET", path |-> <<"/", "a", "/", "*">>],
    [op |-> "MatchOptimized2", method |-> "POST", path |-> <<"/", "a", "/", "*">>],
    [op |-> "FixedRouter.FastMatch", method |-> "GET", path |-> <<"/", "a", "/", "b">>],
    [op |-> "FixedRouter.FastMatch", method |-> "POST", path |-> <<"/", "a", "/", "b">>] }

InitConc ==
  /\ routes = ConcRoutes
  /\ built = TRUE
  /\ router = AddRoutes(NewRouter, ConcRoutes)
  /\ fixed = [made |-> TRUE, hasParams |-> checkForParams(router, 1)]
  /\ heap = [i \in MapIds |-> EmptyMap]
  /\ pool = {}
  /\ held = {}
  /\ ret = Done("", "", <<>>, NoErr)
  /\ procs = [p \in Procs |-> Idle]

\* the test that sends a pooled matcher to paramsPool
UsesPool(op, path) ==
  IF op = "MatchOptimized2" THEN HasParams(Normalize(path)) ELSE fixed.hasParams

\* entry of Match: params := make(PathParams), then the descent starts
StartMatch(p, method, path) ==
  /\ procs[p].pc = "idle"
  /\ FreeIds # {}
  /\ LET id == CHOOSE i \in FreeIds : \A j \in FreeIds : i <= j
     IN  \E o \in matchNode(router, 1, Segments(path), method) :
           procs' = [procs EXCEPT ![p] =
                      [pc |-> "descend", op |-> "Match", method |-> method, path |-> path,
                       handler |-> o.h, pid |-> id, todo |-> o.ev]]
  /\ UNCHANGED <<routes, built, router, fixed, ret, heap, pool, held>>

\* entry of MatchOptimized2 and FixedRouter.FastMatch: paramsPool.Get(), or
\* the whole static traversal, which touches no shared memory but the trie
StartPooled(p, op, method, path) ==
  /\ procs[p].pc = "idle"
  /\ IF UsesPool(op, path)
     THEN \E id \in GetChoices :
            /\ pool' = pool \ {id}
            /\ procs' = [procs EXCEPT ![p] =
                          [pc |-> "clear", op |-> op, method |-> method, path |-> path,
                           handler |-> NoHandler, pid |-> id, todo |-> <<>>]]
     ELSE /\ pool' = pool
          /\ procs' = [procs EXCEPT ![p] =
                        [pc |-> "done", op |-> op, method |-> method, path |-> path,
                         handler |-> matchPathOptimizedStatic(router, 1, Normalize(path), 1, method),
                         pid |-> NilParams, todo |-> <<>>]]
  /\ UNCHANGED <<routes, built, router, fixed, ret, heap, held>>

\* ClearParams that starts the descent on the map as the pool returned it
ClearParams_skip(p) ==
  /\ procs[p].pc = "clear"
  /\ \E o \in matchPathOptimized(router, 1, Normalize(procs[p].path), 1, procs[p].method) :
       procs' = [procs EXCEPT ![p].pc = "descend", ![p].handler = o.h, ![p].todo = o.ev]
  /\ UNCHANGED <<routes, built, router, fixed, ret, heap, pool, held>>

\* for k := range params { delete(params, k) }, then the descent starts
ClearParams(p) ==
  /\ procs[p].pc = "clear"
  /\ heap' = [heap EXCEPT ![procs[p].pid] = Clear(@)]
  /\ \E o \in matchPathOptimized(router, 1, Normalize(procs[p].path), 1, procs[p].method) :
       procs' = [procs EXCEPT ![p].pc = "descend", ![p].handler = o.h, ![p].todo = o.ev]
  /\ UNCHANGED <<routes, built, router, fixed, ret, pool, held>>

\* WriteParams of a descent that repeats its write and never gets past it
WriteParams_stuck(p) ==
  /\ procs[p].pc = "descend"
  /\ Len(procs[p].todo) > 0
  /\ heap' = [heap EXCEPT ![procs[p].pid] = ApplyEvents(<<Head(procs[p].todo)>>, @)]
  /\ UNCHANGED <<routes, built, router, fixed, ret, pool, held, procs>>

\* the next write of the descent to its params map
WriteParams(p) ==
  /\ procs[p].pc = "descend"
  /\ Len(procs[p].todo) > 0
  /\ heap' = [heap EXCEPT ![procs[p].pid] = ApplyEvents(<<Head(procs[p].todo)>>, @)]
  /\ procs' = [procs EXCEPT ![p].todo = Tail(@)]
  /\ UNCHANGED <<routes, built, router, fixed, ret, pool, held>>

\* ReturnMatch of a pooled matcher that puts its map back in every case, also
\* when it hands the map to the caller
ReturnMatch_putAlways(p) ==
  /\ procs[p].pc = "descend"
  /\ Len(procs[p].todo) = 0
  /\ IF procs[p].op # "Match" /\ procs[p].handler = NoHandler
     THEN /\ pool' = pool \cup {procs[p].pid}
          /\ held' = held
          /\ procs' = [procs EXCEPT ![p].pc = "done", ![p].pid = NilParams]
     ELSE /\ pool' = IF procs[p].op # "Match" THEN pool \cup {procs[p].pid} ELSE pool
          /\ held' = held \cup {procs[p].pid}
          /\ procs' = [procs EXCEPT ![p].pc = "done"]
  /\ UNCHANGED <<routes, built, router, fixed, ret, heap>>

\* the return: a pooled matcher that found no handler puts its map back and
\* returns nil params; otherwise the map goes to the caller
ReturnMatch(p) ==
  /\ procs[p].pc = "descend"
  /\ Len(procs[p].todo) = 0
  /\ IF procs[p].op # "Match" /\ procs[p].handler = NoHandler
     THEN /\ pool' = pool \cup {procs[p].pid}
          /\ held' = held
          /\ procs' = [procs EXCEPT ![p].pc = "done", ![p].pid = NilParams]
     ELSE /\ pool' = pool
          /\ held' = held \cup {procs[p].pid}
          /\ procs' = [procs EXCEPT ![p].pc = "done"]
  /\ UNCHANGED <<routes, built, router, fixed, ret, heap>>

\* the caller passes the params it got to ReleaseParams
CallerRelease(p) ==
  /\ procs[p].pc = "done"
  /\ LET pid == procs[p].pid
     IN  /\ IF pid # NilParams /\ DOMAIN heap[pid] # {}
            THEN /\ heap' = [heap EXCEPT ![pid] = Clear(@)]
                 /\ pool' = pool \cup {pid}
            ELSE UNCHANGED <<heap, pool>>
         /\ held' = held \ {pid}
  /\ procs' = [procs EXCEPT ![p] = Idle]
  /\ UNCHANGED <<routes, built, router, fixed, ret>>

\* the caller drops the params it got; the map is garbage from then on
CallerDrop(p) ==
  /\ procs[p].pc = "done"
  /\ LET pid == procs[p].pid
     IN  /\ heap' = IF pid # NilParams THEN [heap EXCEPT ![pid] = EmptyMap] ELSE heap
         /\ held' = held \ {pid}
  /\ procs' = [procs EXCEPT ![p] = Idle]
  /\ UNCHANGED <<routes, built, router, fixed, ret, pool>>

NextConc ==
  \E p \in Procs :
    \/ \E c \in ConcCalls : c.op = "Match" /\ StartMatch(p, c.method, c.path)
    \/ \E c \in ConcCalls : c.op # "Match" /\ StartPooled(p, c.op, c.method, c.path)
    \/ ClearParams(p)
    \/ WriteParams(p)
    \/ ReturnMatch(p)
    \/ CallerRelease(p)
    \/ CallerDrop(p)

SpecConc == InitConc /\ [][NextConc]_vars

(***************************************************************************)
(* Properties                                                              *)
(***************************************************************************)
Handlers(outs) == {o.h : o \in outs}
Yields(outs) == \E o \in outs : o.h # NoHandler

\* the request segments of the last matcher call
RetSegments == Segments(ret.path)

\* what the last matcher call returned
RetResult == [handler |-> ret.handler, params |-> ret.params]

\* the routes a call AddRoute(method, path, _) put into the list
Added(method, path) ==
  {i \in 1..Len(routes) : routes[i].Path = path /\ routes[i].Method = ToUpper(method)}

Latest(S) == CHOOSE i \in S : \A j \in S : j <= i

\* C1: for routes added in non-decreasing path order the first Build
\* succeeds, and Match(method, path) for an added (method, path) returns the
\* handler most recently added for that pair
C1_AddedRouteIsMatched ==
  /\ [][(~built /\ ret'.op = "Build") => (ret'.err = NoErr /\ built')]_vars
  /\ [](( /\ built
          /\ ret.op = "Match"
          /\ ret.method \in RouteMethods
          /\ Added(ret.method, ret.path) # {} )
        => ret.handler = routes[Latest(Added(ret.method, ret.path))].Handler)

\* C2: once Build has succeeded the builder stays built, every AddRoute
\* returns the error of a built router, whatever its path, and appends
\* nothing, and every Build fails and leaves the returned Router alone
C2_BuiltForever ==
  [][built => /\ built'
              /\ routes' = routes
              /\ (ret'.op = "AddRoute" => ret'.err = ErrBuilt)
              /\ (ret'.op = "Build" => (ret'.err = ErrAlreadyBuilt /\ router' = router))]_vars

\* C2 witness: AddRoute on a built builder with a path below the last one
C2_Witness ==
  /\ built
  /\ ret.op = "AddRoute"
  /\ ret.err = ErrBuilt
  /\ Len(routes) > 0
  /\ StrLess(ret.path, routes[Len(routes)].Path)

\* C3: on an unbuilt builder AddRoute fails with the ordering error exactly
\* when a route was accepted before and the new path is byte-wise below the
\* last accepted path; otherwise the route is appended with its method
\* upper-cased; a failed AddRoute changes neither routes nor built
C3_OutOfOrder ==
  [][(~built /\ ret'.op = "AddRoute") =>
       LET below == Len(routes) > 0 /\ StrLess(ret'.path, routes[Len(routes)].Path)
       IN  /\ built' = built
           /\ (ret'.err = ErrOrder) <=> below
           /\ below => routes' = routes
           /\ ~below => /\ ret'.err = NoErr
                        /\ Len(routes') = Len(routes) + 1
                        /\ SubSeq(routes', 1, Len(routes)) = routes
                        /\ routes'[Len(routes')].Path = ret'.path
                        /\ routes'[Len(routes')].Method = ToUpper(ret'.method)]_vars

\* C3 witness: a rejected AddRoute on a builder that holds MaxRoutes routes
C3_Witness ==
  /\ ~built
  /\ ret.op = "AddRoute"
  /\ ret.err = ErrOrder
  /\ Len(routes) = MaxRoutes

\* the routes GET /a/* and GET /a/b of the literal-against-wildcard example
LiteralAndWildcard ==
  /\ Len(routes) = 2
  /\ routes[1].Method = "GET" /\ routes[1].Path = <<"/", "a", "/", "*">>
  /\ routes[2].Method = "GET" /\ routes[2].Path = <<"/", "a", "/", "b">>

\* C4: at every node a literal child whose subtree yields a handler for the
\* remaining segments decides the match, before any parameter child and
\* before the wildcard child; a parameter child that yields a handler is
\* preferred over the wildcard child; with /a/b and /a/* registered, /a/b
\* returns the literal route's handler and /a/c the wildcard route's
C4_Priority ==
  (built /\ ret.op = "Match") =>
    /\ \A n \in 1..Len(router), i \in 1..Len(RetSegments) :
         LET rest == SubSeq(RetSegments, i, Len(RetSegments))
             kids == router[n].children
             at == matchNode(router, n, rest, ret.method)
             lit == IF rest[1] \in DOMAIN kids /\ ~router[kids[rest[1]]].isParam
                    THEN matchNode(router, kids[rest[1]], Tail(rest), ret.method)
                    ELSE {}
             par == UNION { matchNode(router, kids[k], Tail(rest), ret.method)
                            : k \in ParamKeys(router, n) }
         IN  /\ Yields(lit) => Handlers(at) = Handlers(lit)
             /\ (~Yields(lit) /\ Yields(par)) => Handlers(at) \subseteq Handlers(par) \ {NoHandler}
             /\ (Yields(lit) /\ n = 1 /\ i = 1) => ret.handler \in Handlers(lit)
    /\ (LiteralAndWildcard /\ ret.method = "GET") =>
         /\ ret.path = <<"/", "a", "/", "b">> => ret.handler = routes[2].Handler
         /\ ret.path = <<"/", "a", "/", "c">> =>
              /\ ret.handler = routes[1].Handler
              /\ ret.params = MapSet(EmptyMap, <<"*">>, <<"c">>)

\* C4 witness: /a/b matched while /a/* is registered for the same method
C4_Witness ==
  /\ built
  /\ ret.op = "Match"
  /\ LiteralAndWildcard
  /\ ret.method = "GET"
  /\ ret.path = <<"/", "a", "/", "b">>
  /\ ret.handler = routes[2].Handler

\* the bindings a route template gives the request segments: a parameter
\* segment binds its name to the segment at its position, a wildcard segment
\* binds "*" to the rest
RECURSIVE TemplateBindings(_, _)
TemplateBindings(template, segments) ==
  IF Len(template) = 0 \/ Len(segments) = 0 THEN EmptyMap
  ELSE IF Head(template) = <<"*">> THEN MapSet(EmptyMap, <<"*">>, Join(segments))
  ELSE IF HasPrefixColon(Head(template))
       THEN MapSet(TemplateBindings(Tail(template), Tail(segments)),
                   Tail(Head(template)), Head(segments))
       ELSE TemplateBindings(Tail(template), Tail(segments))

\* the route whose handler the last matcher call returned
RetRoute == routes[CHOOSE i \in 1..Len(routes) : routes[i].Handler = ret.handler]

\* C5: when Match returns a handler its bindings are exactly those of the
\* nodes on the successful descent: the parameter and wildcard segments of
\* the matched route, and no key written on a branch that failed
C5_ExactBindings ==
  (built /\ ret.op = "Match" /\ ret.handler # NoHandler) =>
    ret.params = TemplateBindings(Segments(RetRoute.Path), RetSegments)

\* C6: Match and MatchOptimized return the same handler and equal bindings
\* for every router, method and path
C6_OptimizedAgrees ==
  /\ (built /\ ret.op = "MatchOptimized") =>
       RetResult \in MatchReturns(router, ret.method, ret.path)
  /\ (built /\ ret.op = "Match") =>
       RetResult \in MatchOptimizedReturns(router, ret.method, ret.path)

\* C7: Router.FastMatch (MatchOptimized2) returns a handler exactly when
\* Match does, and then the same handler with equal bindings, also for
\* parameter and wildcard routes
C7_FastMatchAgrees ==
  (built /\ ret.op = "MatchOptimized2") =>
    \E r \in MatchReturns(router, ret.method, ret.path) :
      /\ r.handler = ret.handler
      /\ ret.handler # NoHandler => r.params = ret.params

\* C8: a Match query repeated on the same Router returns the same handler
\* and equal bindings
C8_Idempotent ==
  [][(ret.op = "Match" /\ ret'.op = "Match"
       /\ ret'.method = ret.method /\ ret'.path = ret.path)
     => ret' = ret]_vars

\* C9: once a Router exists no call changes its trie
C9_TrieFrozen == [][HasRouter => router' = router]_vars

\* C9 witness: a pooled match found a handler below the root and the builder
\* has since rejected a call
C9_Witness ==
  /\ HasRouter
  /\ Len(router) > 1
  /\ fixed.made
  /\ held # {}
  /\ ret.op = "AddRoute"
  /\ ret.err = ErrBuilt

\* what a pooled matcher returns when it runs alone
PooledReturns(op, method, path) ==
  IF UsesPool(op, path)
  THEN { IF o.h = NoHandler THEN [handler |-> NoHandler, params |-> EmptyMap]
         ELSE Result(o, EmptyMap)
         : o \in matchPathOptimized(router, 1, Normalize(path), 1, method) }
  ELSE { [handler |-> matchPathOptimizedStatic(router, 1, Normalize(path), 1, method),
          params |-> EmptyMap] }

\* what the call of goroutine p returns when it runs alone
AloneReturns(p) ==
  IF procs[p].op = "Match"
  THEN MatchReturns(router, procs[p].method, procs[p].path)
  ELSE PooledReturns(procs[p].op, procs[p].method, procs[p].path)

\* what the call of goroutine p returned: the handler and the contents of
\* the params map the caller holds
ProcResult(p) ==
  [handler |-> procs[p].handler,
   params |-> IF procs[p].pid = NilParams THEN EmptyMap ELSE heap[procs[p].pid]]

\* C10: under every interleaving a finished match holds the handler and
\* bindings of a run alone, for as long as its caller keeps them; no step
\* changes the trie, and a step writes no params map but the one of the
\* goroutine that takes it, which no other goroutine and not the pool holds
C10_Isolated ==
  /\ [](\A p \in Procs : procs[p].pc = "done" => ProcResult(p) \in AloneReturns(p))
  /\ [](\A p \in Procs : procs[p].pid # NilParams =>
          /\ procs[p].pid \notin pool
          /\ \A q \in Procs \ {p} : procs[q].pid # procs[p].pid)
  /\ [][ /\ router' = router
         /\ \A i \in MapIds : heap'[i] # heap[i] =>
              \E p \in Procs : procs'[p] # procs[p] /\ procs[p].pid = i ]_vars

\* C10 witness: one goroutine holds the bindings of a finished match while
\* another is in the middle of a pooled descent that has written its map
C10_Witness ==
  \E p \in Procs, q \in Procs :
    /\ p # q
    /\ procs[p].pc = "done"
    /\ procs[p].handler # NoHandler
    /\ procs[p].pid # NilParams
    /\ heap[procs[p].pid] # EmptyMap
    /\ procs[q].pc = "descend"
    /\ procs[q].op # "Match"
    /\ Len(procs[q].todo) > 0
    /\ heap[procs[q].pid] # EmptyMap

\* a trie without parameter and wildcard nodes
StaticTrie(T) == \A n \in 1..Len(T) : ~T[n].isParam /\ ~T[n].isWild

\* the routes registered for exactly this method on the path with these
\* segments
RoutesAt(method, segments) ==
  {i \in 1..Len(routes) : Segments(routes[i].Path) = segments /\ routes[i].Method = method}

\* C11: handlers are kept per method at a node and the query method is
\* compared as given: a handler that Match returns belongs to a route
\* registered for exactly the query method, and on a trie of literal nodes
\* Match returns the handler registered last for the query method on the
\* query path, and no handler when the path is registered for other methods
\* only
C11_MethodKeyed ==
  (built /\ ret.op = "Match") =>
    /\ ret.handler # NoHandler => RetRoute.Method = ret.method
    /\ StaticTrie(router) =>
         ret.handler = IF RoutesAt(ret.method, RetSegments) = {} THEN NoHandler
                       ELSE routes[Latest(RoutesAt(ret.method, RetSegments))].Handler

\* C11 witness: GET and POST are registered on one path and Match with a
\* third method on that path has returned no handler
C11_Witness ==
  /\ built
  /\ Len(routes) = 2
  /\ routes[1].Method = "GET"
  /\ routes[2].Method = "POST"
  /\ Segments(routes[1].Path) = Segments(routes[2].Path)
  /\ ret.op = "Match"
  /\ ret.method \notin {"GET", "POST"}
  /\ RetSegments = Segments(routes[1].Path)
  /\ Len(RetSegments) > 0
  /\ ret.handler = NoHandler

\* a segment that is neither a parameter nor the wildcard
IsLiteral(segment) == ~HasPrefixColon(segment) /\ segment # <<"*">>

\* the node the literal segments lead to from node n, NilNode if there is none
RECURSIVE LiteralNode(_, _, _)
LiteralNode(T, n, segments) ==
  IF Len(segments) = 0 THEN n
  ELSE IF /\ Head(segments) \in DOMAIN T[n].children
          /\ ~T[T[n].children[Head(segments)]].isParam
       THEN LiteralNode(T, T[n].children[Head(segments)], Tail(segments))
       ELSE NilNode

\* the outcomes of the literal and parameter children of node n for the
\* segments rest: the alternatives tried before the wildcard child of n
Alternatives(T, n, rest, method) ==
  (IF Head(rest) \in DOMAIN T[n].children
   THEN matchNode(T, T[n].children[Head(rest)], Tail(rest), method)
   ELSE {})
  \cup UNION { matchNode(T, T[n].children[k], Tail(rest), method) : k \in ParamKeys(T, n) }

\* C12: for a route P/* with literal P registered for the query method, the
\* wildcard node hangs below the node of P and holds the route's handler;
\* Match on a path with at least one segment after P, the empty segment of a
\* trailing slash included, for which no literal or parameter child of P
\* yields a handler returns that handler and binds exactly "*", to the
\* segments after P joined by "/"; Match on P itself does not return it
C12_Wildcard ==
  (built /\ ret.op = "Match") =>
    \A i \in 1..Len(routes) :
      LET t == Segments(routes[i].Path)
          P == SubSeq(t, 1, Len(t) - 1)
          rest == SubSeq(RetSegments, Len(t), Len(RetSegments))
          n == LiteralNode(router, 1, P)
          h == routes[Latest(RoutesAt(ret.method, t))].Handler
      IN  ( /\ Len(t) > 0
            /\ t[Len(t)] = <<"*">>
            /\ \A k \in 1..Len(P) : IsLiteral(P[k])
            /\ routes[i].Method = ret.method )
          => /\ n # NilNode
             /\ router[n].wildChild # NilNode
             /\ HandlerAt(router, router[n].wildChild, ret.method) = h
             /\ ( /\ Len(RetSegments) >= Len(t)
                  /\ SubSeq(RetSegments, 1, Len(P)) = P
                  /\ ~Yields(Alternatives(router, n, rest, ret.method)) )
                => /\ ret.handler = h
                   /\ ret.params = MapSet(EmptyMap, <<"*">>, Join(rest))
             /\ RetSegments = P => ret.handler # h

\* C12 witness: the wildcard route has matched its prefix followed by a
\* trailing slash and has bound "*" to the empty string
C12_Witness ==
  /\ built
  /\ ret.op = "Match"
  /\ ret.path = <<"/", "a", "/">>
  /\ ret.handler # NoHandler
  /\ Segments(RetRoute.Path) = << <<"a">>, <<"*">> >>
  /\ ret.params = MapSet(EmptyMap, <<"*">>, <<>>)

\* the request segments fit a route template: a literal segment equals the
\* request segment at its position, a parameter segment takes any one
\* segment, a final wildcard takes one or more segments
RECURSIVE Fits(_, _)
Fits(template, segments) ==
  IF Len(template) = 0 THEN Len(segments) = 0
  ELSE IF Len(segments) = 0 THEN FALSE
  ELSE IF Head(template) = <<"*">> THEN Len(template) = 1
  ELSE /\ (HasPrefixColon(Head(template)) \/ Head(template) = Head(segments))
       /\ Fits(Tail(template), Tail(segments))

\* C13: the handlers of the routes added at "/" are kept at the root node;
\* Match returns the root node's handler for the query method, with no
\* bindings, when the request has no segments ("/" or the empty path), and
\* never returns a root route's handler for a path with segments; a handler
\* that Match returns belongs to a route whose template the whole request
\* fits, so a path that ends at a node added only as the prefix of longer
\* routes gets no handler
C13_Root ==
  (built /\ ret.op = "Match") =>
    /\ \A m \in ReqMethods :
         HandlerAt(router, 1, m) = IF RoutesAt(m, <<>>) = {} THEN NoHandler
                                   ELSE routes[Latest(RoutesAt(m, <<>>))].Handler
    /\ Len(RetSegments) = 0 =>
         /\ ret.handler = HandlerAt(router, 1, ret.method)
         /\ ret.params = EmptyMap
    /\ Len(RetSegments) > 0 =>
         \A i \in 1..Len(routes) :
           Len(Segments(routes[i].Path)) = 0 => ret.handler # routes[i].Handler
    /\ ret.handler # NoHandler => Fits(Segments(RetRoute.Path), RetSegments)

\* C13 witness: with routes at "/" and at /a/b, Match on /a, which ends at
\* the node created for the prefix of /a/b, has returned no handler
C13_Witness ==
  /\ built
  /\ Len(routes) = 2
  /\ routes[1].Path = <<"/">>
  /\ routes[2].Path = <<"/", "a", "/", "b">>
  /\ routes[1].Method = routes[2].Method
  /\ ret.op = "Match"
  /\ ret.method = routes[1].Method
  /\ ret.path = <<"/", "a">>
  /\ ret.handler = NoHandler
  /\ LiteralNode(router, 1, RetSegments) # NilNode

(***************************************************************************)
(* The static traversal against the full one: routers built mostly from    *)
(* literal routes, queried through MatchOptimized (matchPathOptimized) and *)
(* through MatchOptimized2 with paths that hold no ':' and no '*'          *)
(* (matchPathOptimizedStatic)                                              *)
(***************************************************************************)
\* paths given to AddRoute:  /  /a  /a/:x  /a/b  /b
StaticRoutePaths ==
  { <<"/">>,
    <<"/", "a">>,
    <<"/", "a", "/", ":", "x">>,
    <<"/", "a", "/", "b">>,
    <<"/", "b">> }

StaticRouteMethods == {"GET", "POST"}

\* paths given to the matchers:  ""  /  /a  /a/  /a/b  /a/b/c  /b  a
StaticReqPaths ==
  { <<>>,
    <<"/">>,
    <<"/", "a">>,
    <<"/", "a", "/">>,
    <<"/", "a", "/", "b">>,
    <<"/", "a", "/", "b", "/", "c">>,
    <<"/", "b">>,
    <<"a">> }

StaticReqMethods == {"GET", "POST", "post"}

\* paths the two traversals are compared on: the above as the matchers pass
\* them on, and  /a/:x  /a/*  /:x
TraversalPaths ==
  { Normalize(path) : path \in StaticReqPaths }
    \cup { <<"/", "a", "/", ":", "x">>, <<"/", "a", "/", "*">>, <<"/", ":", "x">> }

StaticBuilderStep ==
  \/ \E method \in StaticRouteMethods, path \in StaticRoutePaths :
       AddRoute(method, path, NextHandler)
  \/ Build

StaticRouterStep ==
  \/ \E method \in StaticReqMethods, path \in StaticReqPaths : MatchOptimized(method, path)
  \/ \E method \in StaticReqMethods, path \in StaticReqPaths : MatchOptimized2(method, path)

NextStatic == StaticBuilderStep \/ StaticRouterStep

SpecStatic == Init /\ [][NextStatic]_vars

\* C14: on a trie without parameter and wildcard nodes
\* matchPathOptimizedStatic returns the handler matchPathOptimized returns,
\* for every method and path, and so do the matchers built on them
C14_StaticAgrees ==
  (HasRouter /\ StaticTrie(router)) =>
    /\ \A method \in StaticReqMethods, path \in TraversalPaths :
         Handlers(matchPathOptimized(router, 1, path, 1, method))
           = { matchPathOptimizedStatic(router, 1, path, 1, method) }
    /\ ret.op = "MatchOptimized2" =>
         ret.handler \in Handlers(matchPathOptimized(router, 1, Normalize(ret.path), 1, ret.method))
    /\ ret.op = "MatchOptimized" =>
         ret.handler = matchPathOptimizedStatic(router, 1, Normalize(ret.path), 1, ret.method)

\* C14 witness: the static traversal has found a handler two levels below
\* the root of a trie of literal nodes
C14_Witness ==
  /\ HasRouter
  /\ StaticTrie(router)
  /\ Len(router) >= 3
  /\ ret.op = "MatchOptimized2"
  /\ ~HasParams(Normalize(ret.path))
  /\ Len(Segments(ret.path)) = 2
  /\ ret.handler # NoHandler

\* the node a route template leads to from node n: a parameter segment leads
\* to the parameter child of that name, "*" to the wildcard child, a literal
\* segment to the child keyed by it; NilNode if there is none
RECURSIVE TemplateNode(_, _, _)
TemplateNode(T, n, template) ==
  IF Len(template) = 0 THEN n
  ELSE LET segment == Head(template)
           named == {k \in ParamKeys(T, n) : T[T[n].children[k]].paramName = Tail(segment)}
           child == IF HasPrefixColon(segment)
                    THEN (IF named = {} THEN NilNode
                          ELSE T[n].children[CHOOSE k \in named : TRUE])
                    ELSE IF segment = <<"*">> THEN T[n].wildChild
                    ELSE IF segment \in DOMAIN T[n].children THEN T[n].children[segment]
                    ELSE NilNode
       IN  IF child = NilNode THEN NilNode ELSE TemplateNode(T, child, Tail(template))

\* the handler given to the route that was added last among the routes S
\* (handlers are numbered in the order in which AddRoute accepts routes)
LastAdded(S) ==
  CHOOSE h \in {routes[i].Handler : i \in S} :
    \A j \in S : routes[j].Handler <= h

C16_LazyPool ==
  /\ [][ret'.op = "MatchOptimized2" =>
          IF ~HasParams(Normalize(ret'.path))
          THEN /\ pool' = pool
               /\ heap' = heap
               /\ held' = held
               /\ ret'.pid = NilParams
          ELSE IF ret'.handler = NoHandler
          THEN /\ ret'.pid = NilParams
               /\ held' = held
               /\ \E id \in MapIds \ held :
                    /\ pool' = pool \cup {id}
                    /\ \A j \in MapIds \ {id} : heap'[j] = heap[j]
          ELSE /\ ret'.pid \in MapIds \ held
               /\ pool' = pool \ {ret'.pid}
               /\ held' = held \cup {ret'.pid}
               /\ heap'[ret'.pid] = ret'.params
               /\ \A j \in MapIds \ {ret'.pid} : heap'[j] = heap[j]]_vars
  /\ [][\A id \in held :
          id \in pool' => (ret'.op = "ReleaseParams" /\ ret'.pid = id)]_vars
  /\ [](held \cap pool = {})

\* C16 witness: MatchOptimized2 has failed on a path with a marker and left
\* its map, with the entry its descent wrote, in the pool while the map of an
\* earlier successful match is still with its caller
C16_Witness ==
  /\ ret.op = "MatchOptimized2"
  /\ HasParams(Normalize(ret.path))
  /\ ret.handler = NoHandler
  /\ ret.pid = NilParams
  /\ \E id \in pool : heap[id] # EmptyMap
  /\ held # {}

\* the bindings a pooled descent that found handler h can leave in a map
\* that was empty when the descent started
FreshBindings(method, path, h) ==
  { ApplyEvents(o.ev, EmptyMap) :
      o \in {x \in matchPathOptimized(router, 1, Normalize(path), 1, method) : x.h = h} }

\* C17: the map a pooled matcher (MatchOptimized2, FixedRouter.FastMatch)
\* took from the pool is empty when its descent starts, whatever it held when
\* it was taken, and the bindings a pooled matcher returns are those of a
\* descent on an empty map
C17_ClearedOnGet ==
  /\ [][\A p \in Procs :
          (procs[p].pc = "clear" /\ procs'[p].pc = "descend")
            => heap'[procs[p].pid] = EmptyMap]_vars
  /\ [](\A p \in Procs :
          (procs[p].pc = "done" /\ procs[p].op # "Match" /\ procs[p].pid # NilParams)
            => heap[procs[p].pid]
                 \in FreshBindings(procs[p].method, procs[p].path, procs[p].handler))

\* C17 witness: a pooled matcher has taken a map out of the pool that still
\* holds a binding of the failed match that put it there
C17_Witness ==
  \E p \in Procs :
    /\ procs[p].pc = "clear"
    /\ procs[p].op \in {"MatchOptimized2", "FixedRouter.FastMatch"}
    /\ procs[p].pid \notin pool
    /\ heap[procs[p].pid] # EmptyMap

\* C18: ReleaseParams on a map a matcher handed out empties the map and puts
\* it into the pool, also when the map holds no entry
C18_ReleaseReturns ==
  [][(ret'.op = "ReleaseParams" /\ ret'.pid # NilParams) =>
       /\ heap'[ret'.pid] = EmptyMap
       /\ ret'.pid \in pool']_vars

\* the (method, normalized path) pairs of the added routes; AddRoute has
\* upper-cased the methods
RoutePairs == { <<routes[i].Method, Normalize(routes[i].Path)>> : i \in 1..Len(routes) }

\* the non-empty prefixes of the added routes' segment lists: one trie node
\* each
RoutePrefixes ==
  UNION { { SubSeq(Segments(routes[i].Path), 1, k) : k \in 1..Len(Segments(routes[i].Path)) }
          : i \in 1..Len(routes) }

\* the largest number of segments of an added route, 0 without routes
MaxSegments ==
  LET lens == { Len(Segments(routes[i].Path)) : i \in 1..Len(routes) } \cup {0}
  IN  CHOOSE d \in lens : \A e \in lens : e <= d

\* C19: Stats on a built router reports as routes the number of distinct
\* (upper-cased method, normalized path) pairs added, as nodes the number of
\* trie nodes, the root included, and as max_depth the largest number of
\* segments of an added route; RouteCount and NodeCount report the same
\* routes and nodes
C19_Stats ==
  /\ (built /\ ret.op = "Stats") =>
       /\ ret.stats.routes = Cardinality(RoutePairs)
       /\ ret.stats.nodes = Len(router)
       /\ ret.stats.nodes = 1 + Cardinality(RoutePrefixes)
       /\ ret.stats.max_depth = MaxSegments
       /\ (\E i \in 1..Len(routes) : Len(Segments(routes[i].Path)) > 0)
            => (ret.stats.nodes > 1 /\ ret.stats.max_depth > 0)
  /\ (built /\ ret.op = "RouteCount") => ret.stats.routes = Cardinality(RoutePairs)
  /\ (built /\ ret.op = "NodeCount") => ret.stats.nodes = 1 + Cardinality(RoutePrefixes)

\* C19 witness: Stats on the router of two routes, one and two segments
\* long, has reported 2 routes, 3 nodes and depth 2
C19_Witness ==
  /\ built
  /\ Len(routes) = 2
  /\ ret.op = "Stats"
  /\ ret.stats = [nodes |-> 3, routes |-> 2, max_depth |-> 2]

\* a path that does not start with "/"
NoLeadingSlash(path) == Len(path) = 0 \/ path[1] # "/"

\* the added routes, each path without a leading "/" written with one
SlashedRoutes ==
  [i \in 1..Len(routes) |->
     [routes[i] EXCEPT !.Path = IF NoLeadingSlash(@) THEN <<"/">> \o @ ELSE @]]

\* C20: a path without a leading "/" stands for the path with "/" put in
\* front: the trie built from the added routes is the trie built from the
\* routes with "/" put in front of such paths, Match(m, p) for p without a
\* leading "/" returns what Match(m, "/" + p) returns, and the empty path
\* gets the root's handler
C20_LeadingSlash ==
  /\ built => router = AddRoutes(NewRouter, SlashedRoutes)
  /\ (built /\ ret.op = "Match" /\ NoLeadingSlash(ret.path)) =>
       /\ RetResult \in MatchReturns(router, ret.method, <<"/">> \o ret.path)
       /\ MatchReturns(router, ret.method, ret.path)
            = MatchReturns(router, ret.method, <<"/">> \o ret.path)
       /\ Len(ret.path) = 0 => ret.handler = HandlerAt(router, 1, ret.method)

\* C20 witness: routes added as "/a" and as "a" share one node, and Match
\* on "a" has returned the handler added last
C20_Witness ==
  /\ built
  /\ Len(routes) = 2
  /\ routes[1].Path = <<"/", "a">>
  /\ routes[2].Path = <<"a">>
  /\ routes[1].Method = routes[2].Method
  /\ Len(router) = 2
  /\ ret.op = "Match"
  /\ ret.method = routes[2].Method
  /\ ret.path = <<"a">>
  /\ ret.handler = routes[2].Handler

\* a template whose wildcard segment, if it has one, is its last segment
WildcardLast(template) ==
  \A k \in 1..Len(template) - 1 : template[k] # <<"*">>

\* the routes stored for the method whose template the segments fit
FittingRoutes(method, segments) ==
  {i \in 1..Len(routes) :
     /\ routes[i].Method = method
     /\ WildcardLast(Segments(routes[i].Path))
     /\ Fits(Segments(routes[i].Path), segments)}

\* C21: Match returns a handler for (method, path) exactly when a route
\* stored for that method, with its wildcard last if it has one, has a
\* template the path fits, and the handler is that of such a route; when
\* the literal child's subtree yields nothing the parameter children and
\* the wildcard child of the node are still tried
C21_SoundComplete ==
  (built /\ ret.op = "Match") =>
    /\ (ret.handler # NoHandler) <=> (FittingRoutes(ret.method, RetSegments) # {})
    /\ ret.handler # NoHandler =>
         ret.handler \in {routes[i].Handler : i \in FittingRoutes(ret.method, RetSegments)}
    /\ \A n \in 1..Len(router), k \in 1..Len(RetSegments) :
         LET rest == SubSeq(RetSegments, k, Len(RetSegments))
             child == ExactChild(router, n, Head(rest))
             later == UNION { ParamLoop(router, n, order, rest, ret.method, <<>>)
                              : order \in Perms(ParamKeys(router, n)) }
         IN  (child # NilNode /\ ~Yields(matchNode(router, child, Tail(rest), ret.method)))
               => Handlers(matchNode(router, n, rest, ret.method)) = Handlers(later)

\* C21 witness: the literal child b of /a has no handler for the method and
\* Match has returned the handler of the parameter route /a/:x
C21_Witness ==
  /\ built
  /\ Len(routes) = 2
  /\ routes[1].Path = <<"/", "a", "/", ":", "x">>
  /\ routes[2].Path = <<"/", "a", "/", "b">>
  /\ routes[1].Method # routes[2].Method
  /\ ret.op = "Match"
  /\ ret.method = routes[1].Method
  /\ ret.path = <<"/", "a", "/", "b">>
  /\ ret.handler = routes[1].Handler
  /\ ret.params = MapSet(EmptyMap, <<"x">>, <<"b">>)

\* C22: in the trie of every Router each node has at most one parameter
\* child
C22_OneParamChild ==
  HasRouter => \A n \in 1..Len(router) : Cardinality(ParamKeys(router, n)) <= 1

(***************************************************************************)
(* Routes with unusual segments: a parameter marker without a name, and a  *)
(* wildcard that is followed by further segments; all four matchers        *)
(***************************************************************************)
\* paths given to AddRoute:  /a/*  /a/*/b  /a/:
EdgeRoutePaths ==
  { <<"/", "a", "/", "*">>,
    <<"/", "a", "/", "*", "/", "b">>,
    <<"/", "a", "/", ":">> }

EdgeRouteMethods == {"GET"}

\* paths given to the matchers:  /a/:  /a/b  /a/c/b  /a/*/b  /a/*
EdgeReqPaths ==
  { <<"/", "a", "/", ":">>,
    <<"/", "a", "/", "b">>,
    <<"/", "a", "/", "c", "/", "b">>,
    <<"/", "a", "/", "*", "/", "b">>,
    <<"/", "a", "/", "*">> }

EdgeReqMethods == {"GET"}

EdgeBuilderStep ==
  \/ \E method \in EdgeRouteMethods, path \in EdgeRoutePaths : AddRoute(method, path, NextHandler)
  \/ Build
  \/ NewFixedRouter

EdgeRouterStep ==
  \/ \E method \in EdgeReqMethods, path \in EdgeReqPaths : Match(method, path)
  \/ \E method \in EdgeReqMethods, path \in EdgeReqPaths : MatchOptimized(method, path)
  \/ \E method \in EdgeReqMethods, path \in EdgeReqPaths : MatchOptimized2(method, path)
  \/ \E method \in EdgeReqMethods, path \in EdgeReqPaths : FixedFastMatch(method, path)
  \/ \E pid \in held \cup {NilParams} : ReleaseParams(pid)

NextEdge == EdgeBuilderStep \/ EdgeRouterStep

SpecEdge == Init /\ [][NextEdge]_vars

\* the positions of a template that hold the parameter marker without a name
BareMarkers(template) == {k \in 1..Len(template) : template[k] = <<":">>}

\* C23: a route segment ":" is kept as literal text: the child it creates
\* is a literal child keyed ":", and a match of the route needs the request
\* segment ":" at that position and binds nothing for it
C23_BareMarkerLiteral ==
  /\ HasRouter =>
       \A n \in 1..Len(router) :
         <<":">> \in DOMAIN router[n].children => ~router[router[n].children[<<":">>]].isParam
  /\ (built /\ ret.op = "Match" /\ ret.handler # NoHandler) =>
       \A k \in BareMarkers(Segments(RetRoute.Path)) :
         /\ RetSegments[k] = <<":">>
         /\ <<>> \notin DOMAIN ret.params

\* C24: every map that is idle in the pool is empty, the map a pooled
\* matcher puts back after a failed match included
C24_IdleMapsEmpty ==
  \A id \in pool : heap[id] = EmptyMap

\* goroutine p is inside a pooled matcher, between its Get and its return
InFlightPooled(p) == procs[p].pc \in {"clear", "descend"} /\ procs[p].op # "Match"

\* goroutine p is a caller that holds a map a matcher returned and has not
\* released it
HoldsResult(p) == procs[p].pc = "done" /\ procs[p].pid # NilParams

\* C25: with callers that release a map at most once and do not touch it
\* afterwards, the map of a pooled match in flight is not the map of another
\* match in flight and not a map a caller still holds
C25_Exclusive ==
  \A p \in Procs :
    InFlightPooled(p) =>
      /\ procs[p].pid # NilParams
      /\ procs[p].pid \notin held
      /\ \A q \in Procs \ {p} :
           (InFlightPooled(q) \/ HoldsResult(q) \/ procs[q].pc = "descend")
             => procs[q].pid # procs[p].pid

\* C25 witness: two pooled matches are in flight at once, each in the middle
\* of its descent, one with writes to come and one that has written its map
C25_Witness ==
  \E p \in Procs, q \in Procs :
    /\ p # q
    /\ InFlightPooled(p)
    /\ InFlightPooled(q)
    /\ procs[p].pc = "descend"
    /\ procs[q].pc = "descend"
    /\ Len(procs[p].todo) > 0
    /\ heap[procs[q].pid] # EmptyMap

\* C26: NewFixedRouter sets hasParams exactly when the trie holds a
\* parameter or wildcard node, and FixedRouter.FastMatch returns a handler
\* MatchOptimized can return for the same method and path, and the other way
\* round; a parameter route queried with an ordinary path is found
C26_FixedAgrees ==
  /\ fixed.made => (fixed.hasParams <=> ~StaticTrie(router))
  /\ ret.op = "FixedRouter.FastMatch" =>
       ret.handler \in Handlers(matchPathOptimized(router, 1, Normalize(ret.path), 1, ret.method))
  /\ (fixed.made /\ ret.op = "MatchOptimized") =>
       \E r \in PooledReturns("FixedRouter.FastMatch", ret.method, ret.path) :
         r.handler = ret.handler
  /\ fixed.made =>
       \A method \in PoolReqMethods, path \in PoolReqPaths :
         {r.handler : r \in PooledReturns("FixedRouter.FastMatch", method, path)}
           = {r.handler : r \in MatchOptimizedReturns(router, method, path)}

\* C26 witness: FixedRouter.FastMatch has found the parameter route /a/:x
\* for the path /a/b
C26_Witness ==
  /\ fixed.made
  /\ fixed.hasParams
  /\ ret.op = "FixedRouter.FastMatch"
  /\ ret.path = <<"/", "a", "/", "b">>
  /\ ret.handler # NoHandler
  /\ ret.params = MapSet(EmptyMap, <<"x">>, <<"b">>)

\* the nodes node n points to: its children and its wildcard child
ChildNodes(T, n) ==
  {T[n].children[k] : k \in DOMAIN T[n].children}
    \cup (IF T[n].wildChild # NilNode THEN {T[n].wildChild} ELSE {})

\* C27: in the trie of every Router a node holds a handler for a method
\* only if it is the node the segments of an added route with that method
\* lead to, so nodes that routes only pass through hold none; every node
\* but the root is the node some prefix of an added route leads to, and has
\* exactly one parent
C27_TerminalOnly ==
  HasRouter =>
    /\ \A n \in 1..Len(router) :
         \A m \in DOMAIN router[n].methods :
           \E i \in 1..Len(routes) :
             /\ routes[i].Method = m
             /\ TemplateNode(router, 1, Segments(routes[i].Path)) = n
    /\ \A n \in 2..Len(router) :
         /\ \E t \in RoutePrefixes : TemplateNode(router, 1, t) = n
         /\ Cardinality({parent \in 1..Len(router) : n \in ChildNodes(router, parent)}) = 1
    /\ \A n \in 1..Len(router) :
         /\ 1 \notin ChildNodes(router, n)
         /\ Cardinality(ChildNodes(router, n))
              = Cardinality(DOMAIN router[n].children)
                + (IF router[n].wildChild # NilNode THEN 1 ELSE 0)

\* C27 witness: a Router whose only route is two segments long: the node in
\* between holds no handler
C27_Witness ==
  /\ HasRouter
  /\ Len(routes) = 1
  /\ Len(Segments(routes[1].Path)) = 2
  /\ Len(router) = 3
  /\ router[1].methods = EmptyMap
  /\ router[2].methods = EmptyMap
  /\ router[3].methods # EmptyMap

\* the route list is in non-decreasing byte-wise order of path
RoutesSorted ==
  \A i \in 1..Len(routes) - 1 : ~StrLess(routes[i + 1].Path, routes[i].Path)

\* C28: the route list of a builder is always in non-decreasing byte-wise
\* order of the paths as given; an AddRoute that fails appends nothing; the
\* sort in Build leaves every path at its position, and the trie is the one
\* obtained by inserting the routes in the order in which they were added
C28_AlwaysSorted ==
  /\ []RoutesSorted
  /\ [][(ret'.op = "AddRoute" /\ ret'.err # NoErr) => routes' = routes]_vars
  /\ [][(~built /\ ret'.op = "Build") =>
          /\ Len(routes') = Len(routes)
          /\ \A i \in 1..Len(routes) : routes'[i].Path = routes[i].Path
          /\ router' = AddRoutes(NewRouter, routes)]_vars

\* C28 witness: Build has run on two routes with different paths and has
\* inserted them in the order in which they were added
C28_Witness ==
  /\ built
  /\ ret.op = "Build"
  /\ ret.err = NoErr
  /\ Len(routes) = 2
  /\ StrLess(routes[1].Path, routes[2].Path)
  /\ router = AddRoutes(AddRoutes(NewRouter, <<routes[1]>>), <<routes[2]>>)

\* the routes whose template goes on after a wildcard segment
PastWildcard == {i \in 1..Len(routes) : ~WildcardLast(Segments(routes[i].Path))}

\* the calls that match a path
Matchers == {"Match", "MatchOptimized", "MatchOptimized2", "FixedRouter.FastMatch"}

\* C29: a route whose template goes on after a wildcard segment is accepted
\* by AddRoute and by Build like any other; its handler is stored at the
\* node its segments lead to, below the wildcard node; and no matcher
\* returns that handler, whatever the method and path
C29_WildcardTerminates ==
  /\ [][( /\ ~built
          /\ ret'.op = "AddRoute"
          /\ ~WildcardLast(Segments(ret'.path))
          /\ ~(Len(routes) > 0 /\ StrLess(ret'.path, routes[Len(routes)].Path)) )
        => (ret'.err = NoErr /\ Len(routes') = Len(routes) + 1)]_vars
  /\ [][(~built /\ ret'.op = "Build") => ret'.err = NoErr]_vars
  /\ [](built =>
          \A i \in PastWildcard :
            LET t == Segments(routes[i].Path)
                k == CHOOSE j \in 1..Len(t) : t[j] = <<"*">> /\ \A l \in 1..j - 1 : t[l] # <<"*">>
                w == TemplateNode(router, 1, SubSeq(t, 1, k))
                n == TemplateNode(router, 1, t)
            IN  /\ w # NilNode
                /\ router[w].isWild
                /\ n \notin {NilNode, w}
                /\ HandlerAt(router, n, routes[i].Method)
                     = LastAdded(RoutesAt(routes[i].Method, t)))
  /\ []((built /\ ret.op \in Matchers) =>
          /\ ret.handler \notin {routes[i].Handler : i \in PastWildcard}
          /\ \A method \in EdgeReqMethods, path \in EdgeReqPaths :
               \A i \in PastWildcard :
                 /\ routes[i].Handler \notin Handlers(matchNode(router, 1, Segments(path), method))
                 /\ routes[i].Handler \notin Handlers(matchPathOptimized(router, 1, path, 1, method))
                 /\ routes[i].Handler # matchPathOptimizedStatic(router, 1, path, 1, method))

\* C29 witness: the only route is /a/*/b and Match on /a/c/b has returned
\* no handler, with the wildcard's binding left in the map
C29_Witness ==
  /\ built
  /\ Len(routes) = 1
  /\ routes[1].Path = <<"/", "a", "/", "*", "/", "b">>
  /\ ret.op = "Match"
  /\ ret.method = routes[1].Method
  /\ ret.path = <<"/", "a", "/", "c", "/", "b">>
  /\ ret.handler = NoHandler
  /\ ret.params = MapSet(EmptyMap, <<"*">>, <<"c", "/", "b">>)

(***************************************************************************)
(* Termination of the matchers.  The depth operators follow the calls the  *)
(* descents make: a call returns at once when the path is used up, and     *)
(* otherwise calls itself on the child keyed by the segment and on         *)
(* parameter children, each time for the rest of the path.  The goroutines *)
(* of SpecFair run the calls of SpecConc on one of several routers, and    *)
(* the scheduler lets every goroutine that can take a step take one.       *)
(***************************************************************************)
\* the largest of a set of numbers, 0 for the empty set
MaxOf(S) == IF S = {} THEN 0 ELSE CHOOSE d \in S : \A e \in S : e <= d

\* the children a descent at node n can call itself on for this segment
Descended(T, n, segment) ==
  (IF ExactChild(T, n, segment) # NilNode THEN {ExactChild(T, n, segment)} ELSE {})
    \cup {T[n].children[k] : k \in ParamKeys(T, n)}

\* the depth the recursion of matchNode can reach, the first call counted
RECURSIVE matchNodeDepth(_, _, _)
matchNodeDepth(T, n, segments) ==
  IF Len(segments) = 0 THEN 1
  ELSE 1 + MaxOf({ matchNodeDepth(T, c, Tail(segments))
                   : c \in Descended(T, n, Head(segments)) })

\* the same for matchPathOptimized
RECURSIVE matchPathOptimizedDepth(_, _, _, _)
matchPathOptimizedDepth(T, n, path, start) ==
  IF start >= Len(path) THEN 1
  ELSE LET end == SegmentEnd(path, start)
       IN  1 + MaxOf({ matchPathOptimizedDepth(T, c, path, NextStart(path, end))
                       : c \in Descended(T, n, Slice(path, start, end)) })

\* the same for matchPathOptimizedStatic
RECURSIVE matchPathOptimizedStaticDepth(_, _, _, _)
matchPathOptimizedStaticDepth(T, n, path, start) ==
  IF start >= Len(path) THEN 1
  ELSE LET end == SegmentEnd(path, start)
           child == ExactChild(T, n, Slice(path, start, end))
       IN  IF child # NilNode /\ ~T[child].isParam
           THEN 1 + matchPathOptimizedStaticDepth(T, child, path, NextStart(path, end))
           ELSE 1

\* the routers the goroutines of SpecFair share
FairRouteLists ==
  { ConcRoutes,
    << [Method |-> "GET", Path |-> <<"/", ":", "x", "/", "b">>, Handler |-> 1],
       [Method |-> "POST", Path |-> <<"/", "a", "/", "*">>, Handler |-> 2] >>,
    << [Method |-> "GET", Path |-> <<"/", "a">>, Handler |-> 1],
       [Method |-> "GET", Path |-> <<"/", "a", "/", "b">>, Handler |-> 2] >> }

InitFair ==
  /\ routes \in FairRouteLists
  /\ built = TRUE
  /\ router = AddRoutes(NewRouter, routes)
  /\ fixed = [made |-> TRUE, hasParams |-> checkForParams(router, 1)]
  /\ heap = [i \in MapIds |-> EmptyMap]
  /\ pool = {}
  /\ held = {}
  /\ ret = Done("", "", <<>>, NoErr)
  /\ procs = [p \in Procs |-> Idle]

\* a step of the call goroutine p is in
CallStep(p) == ClearParams(p) \/ WriteParams(p) \/ ReturnMatch(p)

\* the calls the goroutines of SpecFair make
FairCalls ==
  { [op |-> "Match", method |-> "GET", path |-> <<"/", "a", "/", "b">>],
    [op |-> "FixedRouter.FastMatch", method |-> "GET", path |-> <<"/", "a", "/", "c">>],
    [op |-> "MatchOptimized2", method |-> "POST", path |-> <<"/", "a", "/", "*">>] }

NextFair ==
  \E p \in Procs :
    \/ \E c \in FairCalls : c.op = "Match" /\ StartMatch(p, c.method, c.path)
    \/ \E c \in FairCalls : c.op # "Match" /\ StartPooled(p, c.op, c.method, c.path)
    \/ CallStep(p)
    \/ CallerRelease(p)
    \/ CallerDrop(p)

SpecFair ==
  /\ InitFair
  /\ [][NextFair]_vars
  /\ \A p \in Procs : WF_vars(CallStep(p))

\* the recursion of each descent on the router is at most one deeper than
\* the path has segments
DepthBounded ==
  \A path \in ReqPaths :
    /\ matchNodeDepth(router, 1, Segments(path)) <= Len(Segments(path)) + 1
    /\ matchPathOptimizedDepth(router, 1, Normalize(path), 1)
         <= Len(Tail(Split(Normalize(path)))) + 1
    /\ matchPathOptimizedStaticDepth(router, 1, Normalize(path), 1)
         <= Len(Tail(Split(Normalize(path)))) + 1

\* C30: every match call that has started returns, whatever the other
\* goroutines do, and taking a map from the pool never has to wait; the
\* recursion of each descent is at most one deeper than the path has
\* segments, on the router the goroutines start with, which no call changes
C30_Terminates ==
  /\ \A p \in Procs : (procs[p].pc \in {"clear", "descend"}) ~> (procs[p].pc = "done")
  /\ []((\E p \in Procs : procs[p].pc = "idle") => GetChoices # {})
  /\ DepthBounded
  /\ [][router' = router]_vars

\* C30 witness: a Match that went into the literal child, came back and
\* found its handler through the parameter child has returned, at recursion
\* depth three for a path of two segments
C30_Witness ==
  \E p \in Procs :
    /\ procs[p].pc = "done"
    /\ procs[p].op = "Match"
    /\ procs[p].handler # NoHandler
    /\ routes[1].Path = <<"/", ":", "x", "/", "b">>
    /\ matchNodeDepth(router, 1, Segments(procs[p].path)) = 3
    /\ heap[procs[p].pid] = MapSet(MapSet(EmptyMap, <<"*">>, <<"b">>), <<"x">>, <<"a">>)

====
